---------------------------- MODULE Spec2Model ----------------------------
(***************************************************************************)
(* A model of db.py: the lazy connection handle (_LasyConnection), the     *)
(* thread-local execution context (_DbCtx), the two nestable scopes        *)
(* (_ConnectionCtx, _TransactionCtx) and the query helpers (_select,       *)
(* select_one, select_int, select, _update).                               *)
(*                                                                         *)
(* Python's object model is kept where the code depends on it:             *)
(*  - an attribute that __init__ never assigned is absent, and reading it  *)
(*    raises AttributeError ("NoAttr" below);                              *)
(*  - a with statement looks up __exit__ and __enter__ on the manager's    *)
(*    class before it calls __enter__, and raises when one is missing;     *)
(*  - an exception raised by __exit__, by an except clause or by a finally *)
(*    clause replaces the exception in flight.                             *)
(* The module is read as loaded: the base classes named on lines 46 and 50 *)
(* and utils.Dict (line 20) are taken to resolve.                          *)
(***************************************************************************)
EXTENDS Integers, Sequences, FiniteSets, TLC

\* Bounds of the model.
MaxDepth == 3      \* scopes open at once in one execution unit
MaxConns == 2      \* raw connections one execution unit opens
MaxWrites == 2     \* write statements that reach the database
MaxCols == 2       \* columns of a query's result
MaxRows == 1       \* rows of a query's result
MaxThreadDepth == 1  \* scopes open at once in each of several threads

\* Execution units (threads); Spec runs MainUnit alone.
Units == {"t1", "t2"}
MainUnit == "t1"

VARIABLES
    db_connect,   \* the module global _db_connect: the Driver Factory
    ctx,          \* _db_ctx: per thread-local slot, the attributes of _DbCtx
                  \*   and of the _LasyConnection it holds
    opened,       \* per unit: raw connections obtained from the factory
    closed,       \* per unit: raw connections closed
    pending,      \* per slot: writes executed on the raw connection, uncommitted
    committed,    \* writes committed to the database (visible to every unit)
    stack,        \* per unit: the with statements whose block is running
    exc,          \* per unit: the exception propagating in the running block
    hist,         \* per unit: history of the current outermost scope nest
    last          \* per unit: history of the last operation

vars == <<db_connect, ctx, opened, closed, pending, committed, stack, exc, hist, last>>

----------------------------------------------------------------------------
\* Exceptions: a type and the call that raised it.

NoExc == [type |-> "none", origin |-> "none"]
AttributeError(at) == [type |-> "AttributeError", origin |-> at]
DriverError(at) == [type |-> "DriverError", origin |-> at]
AppError == [type |-> "AppError", origin |-> "block"]
MulticolumnError == [type |-> "MulticolumnError", origin |-> "select_int"]
TypeError == [type |-> "TypeError", origin |-> "select_int"]

\* _dummy_connect: the factory before a driver is installed.
DummyConnectError == [type |-> "DBError", origin |-> "_dummy_connect"]

\* Return values of the helpers.
NoRet == [kind |-> "none", cols |-> 0, rows |-> 0]
RetNone == [kind |-> "None", cols |-> 0, rows |-> 0]
RetRecord(c) == [kind |-> "Dict", cols |-> c, rows |-> 1]
RetList(c, r) == [kind |-> "list", cols |-> c, rows |-> r]
RetValue == [kind |-> "value", cols |-> 1, rows |-> 1]
RetRowcount == [kind |-> "rowcount", cols |-> 0, rows |-> 1]

\* What the driver does in one operation: which of its calls fail,
\* and the shape of the result set a query finds.
Inputs == [commit : BOOLEAN, rollback : BOOLEAN, close : BOOLEAN, execute : BOOLEAN,
           cols : 1..MaxCols, rows : 0..MaxRows]

----------------------------------------------------------------------------
(***************************************************************************)
(* The handlers are written over a machine record m: the context's slot    *)
(* (conn: _DbCtx.connection, "None" or "LasyConnection"; hconn: the        *)
(* attribute connection of that handle, "NoAttr" when absent, "None" or    *)
(* "Raw"; transactions), the raw connection's counters, the calls made so  *)
(* far, the exception in flight (NoExc: none), every exception raised so    *)
(* far and the value returned.                                             *)
(***************************************************************************)

Call(m, c) == [m EXCEPT !.calls = Append(@, c)]
Raise(m, e) == [m EXCEPT !.exc = e, !.raised = Append(@, e)]
Reraise(m, e) == [m EXCEPT !.exc = e]
Handled(m) == [m EXCEPT !.exc = NoExc]
Return(m, r) == [m EXCEPT !.ret = r]
Ok(m) == m.exc = NoExc

\* _LasyConnection.__init__: the attributes it assigns (each to None).
HandleInitAttrs == {"connect"}

\* The attribute connection of a handle fresh from __init__.
NewHandleConn == IF "connection" \in HandleInitAttrs THEN "None" ELSE "NoAttr"

\* _LasyConnection.cursor
HandleCursor(m) ==
    LET m1 == Call(m, "handle.cursor")
    IN  IF m1.hconn = "NoAttr" THEN Raise(m1, AttributeError("handle.cursor"))
        ELSE IF m1.hconn = "None"
        THEN IF db_connect = "_dummy_connect"
             THEN Raise(Call(m1, "_db_connect"), DummyConnectError)
             ELSE Call([Call(m1, "_db_connect") EXCEPT !.hconn = "Raw",
                                                      !.opened = @ + 1],
                       "raw.cursor")
        ELSE Call(m1, "raw.cursor")

\* _LasyConnection.commit
HandleCommit(m, f) ==
    LET m1 == Call(m, "handle.commit")
    IN  IF m1.hconn # "Raw" THEN Raise(m1, AttributeError("handle.commit"))
        ELSE IF f.commit THEN Raise(Call(m1, "raw.commit"), DriverError("commit"))
        ELSE [Call(m1, "raw.commit") EXCEPT !.committed = @ + m1.pending,
                                           !.pending = 0]

\* _LasyConnection.rollback
HandleRollback(m, f) ==
    LET m1 == Call(m, "handle.rollback")
    IN  IF m1.hconn # "Raw" THEN Raise(m1, AttributeError("handle.rollback"))
        ELSE IF f.rollback THEN Raise(Call(m1, "raw.rollback"), DriverError("rollback"))
        ELSE [Call(m1, "raw.rollback") EXCEPT !.pending = 0]

\* _LasyConnection.cleanup
HandleCleanup(m, f) ==
    LET m1 == Call(m, "handle.cleanup")
    IN  IF m1.hconn = "NoAttr" THEN Raise(m1, AttributeError("handle.cleanup"))
        ELSE IF m1.hconn = "None" THEN m1
        ELSE LET m2 == [Call(m1, "raw.close") EXCEPT !.hconn = "None",
                                                     !.closed = @ + 1,
                                                     !.pending = 0]
             IN  IF f.close THEN Raise(m2, DriverError("close")) ELSE m2

\* _DbCtx.is_init
DbCtxIsInit(m) == m.conn # "None"

\* _DbCtx.init
DbCtxInit(m) ==
    [Call(m, "ctx.init") EXCEPT !.conn = "LasyConnection",
                                !.hconn = NewHandleConn,
                                !.pending = 0,
                                !.transactions = 0]

\* _DbCtx.cleanup
DbCtxCleanup(m, f) ==
    LET m1 == Call(m, "ctx.cleanup")
    IN  IF m1.conn = "None" THEN Raise(m1, AttributeError("ctx.cleanup"))
        ELSE HandleCleanup(m1, f)

\* _DbCtx.cursor, and the expression _db_ctx.connection.cursor()
DbCtxCursor(m) ==
    IF m.conn = "None" THEN Raise(m, AttributeError("ctx.cursor"))
    ELSE HandleCursor(m)

\* The expression _db_ctx.connection.commit()
DbCtxCommit(m, f) ==
    IF m.conn = "None" THEN Raise(m, AttributeError("ctx.commit"))
    ELSE HandleCommit(m, f)

\* The expression _db_ctx.connection.rollback()
DbCtxRollback(m, f) ==
    IF m.conn = "None" THEN Raise(m, AttributeError("ctx.rollback"))
    ELSE HandleRollback(m, f)

----------------------------------------------------------------------------
\* The scopes.

\* The methods the class body of _ConnectionCtx defines.
ConnectionCtxMethods == {"__enter__", "_exit__"}

\* The methods the class body of _TransactionCtx defines.
TransactionCtxMethods == {"__enter__", "__exit__", "commit", "rollback"}

\* The with statement's lookup of the context manager protocol.
IsContextManager(methods) == "__exit__" \in methods /\ "__enter__" \in methods

\* _ConnectionCtx.__enter__; m.flag is should_cleanup
ConnCtxEnter(m) ==
    IF ~DbCtxIsInit(m) THEN [DbCtxInit(m) EXCEPT !.flag = TRUE]
    ELSE [m EXCEPT !.flag = FALSE]

\* _ConnectionCtx._exit__
ConnCtxExit(m, should_cleanup, f) ==
    IF should_cleanup THEN DbCtxCleanup(m, f) ELSE m

TxCtxEnter_NoInit(m) == [m EXCEPT !.flag = FALSE, !.transactions = @ + 1]

\* _TransactionCtx.__enter__; m.flag is should_close_conn
TxCtxEnter(m) ==
    LET m1 == IF ~DbCtxIsInit(m) THEN [DbCtxInit(m) EXCEPT !.flag = TRUE]
              ELSE [m EXCEPT !.flag = FALSE]
    IN  [m1 EXCEPT !.transactions = @ + 1]

\* _TransactionCtx.commit
TxCtxCommit(m, f) ==
    LET m1 == DbCtxCommit(Call(m, "tx.commit"), f)
    IN  IF Ok(m1) THEN m1
        ELSE LET m2 == DbCtxRollback(Handled(m1), f)        \* except: ... rollback()
             IN  IF Ok(m2) THEN Reraise(m2, m1.exc)          \* raise
                 ELSE m2

\* _TransactionCtx.rollback
TxCtxRollback(m, f) == DbCtxRollback(Call(m, "tx.rollback"), f)

IsOutermostExit_EveryExit(transactions) == transactions >= 0

\* _TransactionCtx.__exit__: the test that this exit is the outermost one
IsOutermostExit(transactions) == transactions = 0

TxCtxExit_NoFinally(m, should_close_conn, exctype, f) ==
    LET m1 == [m EXCEPT !.transactions = @ - 1]
        m2 == IF m1.transactions = 0
              THEN IF exctype = NoExc THEN TxCtxCommit(m1, f) ELSE TxCtxRollback(m1, f)
              ELSE m1
    IN  IF should_close_conn /\ Ok(m2) THEN DbCtxCleanup(m2, f) ELSE m2

TxCtxExit_AlwaysCommit(m, should_close_conn, exctype, f) ==
    LET m1 == [m EXCEPT !.transactions = @ - 1]
        m2 == IF m1.transactions = 0 THEN TxCtxCommit(m1, f) ELSE m1
        m3 == IF should_close_conn THEN DbCtxCleanup(Handled(m2), f) ELSE m2
    IN  IF Ok(m3) THEN Reraise(m3, m2.exc) ELSE m3

TxCtxExit_DecrementOnSuccess(m, should_close_conn, exctype, f) ==
    LET m1 == IF exctype = NoExc THEN [m EXCEPT !.transactions = @ - 1] ELSE m
        m2 == IF m1.transactions = 0
              THEN IF exctype = NoExc THEN TxCtxCommit(m1, f) ELSE TxCtxRollback(m1, f)
              ELSE m1
        m3 == IF should_close_conn THEN DbCtxCleanup(Handled(m2), f) ELSE m2
    IN  IF Ok(m3) THEN Reraise(m3, m2.exc) ELSE m3

\* _TransactionCtx.__exit__; exc of the result is what __exit__ itself raises
TxCtxExit(m, should_close_conn, exctype, f) ==
    LET m1 == [m EXCEPT !.transactions = @ - 1]
        m2 == IF IsOutermostExit(m1.transactions)
              THEN IF exctype = NoExc THEN TxCtxCommit(m1, f) ELSE TxCtxRollback(m1, f)
              ELSE m1
        m3 == IF should_close_conn THEN DbCtxCleanup(Handled(m2), f) ELSE m2
    IN  IF Ok(m3) THEN Reraise(m3, m2.exc) ELSE m3       \* finally

----------------------------------------------------------------------------
\* The query helpers.

\* _select
Select_(m, first, f) ==
    LET m1 == DbCtxCursor(m)
    IN  IF ~Ok(m1) THEN m1                                  \* finally: cursor is None
        ELSE LET m2 == Call(m1, "cursor.execute")
             IN  IF f.execute
                 THEN Raise(Call(m2, "cursor.close"), DriverError("execute"))
                 ELSE Return(Call(m2, "cursor.close"),
                             IF first
                             THEN IF f.rows = 0 THEN RetNone ELSE RetRecord(f.cols)
                             ELSE RetList(f.cols, f.rows))

\* select_int's body
SelectIntBody(m, f) ==
    LET m1 == Select_(m, TRUE, f)
    IN  IF ~Ok(m1) THEN m1
        ELSE IF m1.ret = RetNone THEN Raise(Return(m1, NoRet), TypeError)   \* len(None)
        ELSE IF m1.ret.cols # 1 THEN Raise(Return(m1, NoRet), MulticolumnError)
        ELSE Return(m1, RetValue)


\* _update's body
UpdateBody(m, f) ==
    LET m1 == DbCtxCursor(m)
    IN  IF ~Ok(m1) THEN m1                                  \* finally: cursor is None
        ELSE LET m2 == Call(m1, "cursor.execute")
             IN  IF f.execute
                 THEN Raise(Call(m2, "cursor.close"), DriverError("execute"))
                 ELSE LET m3 == [m2 EXCEPT !.pending = @ + 1]
                          m4 == IF m3.transactions = 0 THEN DbCtxCommit(m3, f) ELSE m3
                      IN  IF Ok(m4) THEN Return(Call(m4, "cursor.close"), RetRowcount)
                          ELSE Call(m4, "cursor.close")

\* The undecorated functions that with_connection wraps
Func(func, m, f) ==
    CASE func = "select_one" -> Select_(m, TRUE, f)
      [] func = "select_int" -> SelectIntBody(m, f)
      [] func = "select" -> Select_(m, FALSE, f)
      [] func = "_update" -> UpdateBody(m, f)

\* with_connection's _wrapper around the function named func
with_connection(m, f, func) ==
    LET m0 == Call(m, "with _ConnectionCtx")
    IN  IF ~IsContextManager(ConnectionCtxMethods)
        THEN Raise(m0, AttributeError("__exit__"))
        ELSE LET m1 == ConnCtxEnter(m0)
                 m2 == Func(func, m1, f)
                 m3 == ConnCtxExit(Handled(m2), m1.flag, f)
             IN  IF Ok(m3) THEN Reraise(m3, m2.exc) ELSE Return(m3, NoRet)

\* select_one, select_int, select
select_one(m, f) == with_connection(m, f, "select_one")
select_int(m, f) == with_connection(m, f, "select_int")
select(m, f) == with_connection(m, f, "select")

\* _update (insert and update call it)
update(m, f) == with_connection(m, f, "_update")

----------------------------------------------------------------------------
\* The state machine: what one execution unit does, one statement at a time.

CtxOf_OneSlot(u) == MainUnit

\* class _DbCtx(threading.local): the slot of _db_ctx a unit reads and writes
CtxOf(u) == u

\* _DbCtx.__init__, run for a thread on its first use of _db_ctx
DbCtxNew == [connection |-> "None", hconn |-> "NoHandle", transactions |-> 0]

Machine(u) ==
    [conn |-> ctx[CtxOf(u)].connection,
     hconn |-> ctx[CtxOf(u)].hconn,
     transactions |-> ctx[CtxOf(u)].transactions,
     pending |-> pending[CtxOf(u)],
     committed |-> committed,
     opened |-> opened[u],
     closed |-> closed[u],
     calls |-> <<>>, raised |-> <<>>,
     exc |-> NoExc, ret |-> NoRet, flag |-> FALSE]

Store(u, m) ==
    /\ ctx' = [ctx EXCEPT ![CtxOf(u)] = [connection |-> m.conn, hconn |-> m.hconn,
                                         transactions |-> m.transactions]]
    /\ pending' = [pending EXCEPT ![CtxOf(u)] = m.pending]
    /\ committed' = m.committed
    /\ opened' = [opened EXCEPT ![u] = m.opened]
    /\ closed' = [closed EXCEPT ![u] = m.closed]

Bounded(m) == m.opened <= MaxConns /\ m.pending + m.committed <= MaxWrites

Count(seq, S) == Cardinality({i \in DOMAIN seq : seq[i] \in S})
Top(u) == stack[u][Len(stack[u])]
InTx(stk) == \E i \in DOMAIN stk : stk[i].kind = "tx"

Max(a, b) == IF a >= b THEN a ELSE b

\* Of the current outermost transaction: decisions (calls of _TransactionCtx.commit
\* or rollback), commits (calls of commit on the handle that leave a Transaction
\* Scope open), failed (a failure was raised in a protected block), maxdepth (the
\* deepest nesting).  Of the current
\* nest of scopes: cleanups (calls of _DbCtx.cleanup), opens (raw connections
\* opened), cursors (a cursor was requested).
NewHist == [decisions |-> 0, commits |-> 0, failed |-> FALSE, maxdepth |-> 0,
            cleanups |-> 0, opens |-> 0, cursors |-> FALSE]

\* The history of the nest after an operation that ran m from state h
NextHist(u, h, m, stk) ==
    [decisions |-> h.decisions + Count(m.calls, {"tx.commit", "tx.rollback"}),
     commits |-> h.commits + IF InTx(stk) THEN Count(m.calls, {"handle.commit"}) ELSE 0,
     maxdepth |-> Max(h.maxdepth, m.transactions),
     failed |-> h.failed \/ (~Ok(m) /\ InTx(stk)),
     cleanups |-> h.cleanups + Count(m.calls, {"ctx.cleanup"}),
     opens |-> h.opens + (m.opened - opened[u]),
     cursors |-> h.cursors \/ Count(m.calls, {"handle.cursor"}) > 0]

Record(op, u, m, outer, exIn, exOut, done, f) ==
    [op |-> op, outer |-> outer,
     depth |-> ctx[CtxOf(u)].transactions, after |-> m.transactions,
     frames |-> Len(stack[u]),
     exIn |-> exIn, exOut |-> exOut, ret |-> m.ret,
     calls |-> m.calls, raised |-> m.raised, done |-> done,
     cols |-> f.cols, rows |-> f.rows]

NoInput == [commit |-> FALSE, rollback |-> FALSE, close |-> FALSE, execute |-> FALSE,
            cols |-> 0, rows |-> 0]

NoOp == [op |-> "none", outer |-> FALSE, depth |-> 0, after |-> 0, frames |-> 0,
         exIn |-> NoExc, exOut |-> NoExc, ret |-> NoRet,
         calls |-> <<>>, raised |-> <<>>, done |-> FALSE, cols |-> 0, rows |-> 0]

Init ==
    /\ db_connect \in {"_dummy_connect", "driver"}
    /\ ctx = [s \in Units |-> DbCtxNew]
    /\ opened = [u \in Units |-> 0]
    /\ closed = [u \in Units |-> 0]
    /\ pending = [s \in Units |-> 0]
    /\ committed = 0
    /\ stack = [u \in Units |-> <<>>]
    /\ exc = [u \in Units |-> NoExc]
    /\ hist = [u \in Units |-> NewHist]
    /\ last = [u \in Units |-> NoOp]

\* with connection(): the statement up to the start of its block
ConnectionScope(u) ==
    /\ exc[u] = NoExc
    /\ Len(stack[u]) < MaxDepth
    /\ LET m0 == Call(Machine(u), "with _ConnectionCtx")
           ok == IsContextManager(ConnectionCtxMethods)
           m == IF ok THEN ConnCtxEnter(m0) ELSE Raise(m0, AttributeError("__exit__"))
           stk == IF ok THEN Append(stack[u], [kind |-> "conn", flag |-> m.flag])
                  ELSE stack[u]
           h == IF stack[u] = <<>> THEN NewHist ELSE hist[u]
       IN  /\ Store(u, m)
           /\ stack' = [stack EXCEPT ![u] = stk]
           /\ exc' = [exc EXCEPT ![u] = m.exc]
           /\ hist' = [hist EXCEPT ![u] = NextHist(u, h, m, stk)]
           /\ last' = [last EXCEPT ![u] =
                  Record("with connection", u, m, ~DbCtxIsInit(m0), NoExc, m.exc, ~ok,
                         NoInput)]
    /\ UNCHANGED db_connect

\* with transaction(): the statement up to the start of its block
TransactionScope(u) ==
    /\ exc[u] = NoExc
    /\ Len(stack[u]) < MaxDepth
    /\ LET m0 == Call(Machine(u), "with _TransactionCtx")
           ok == IsContextManager(TransactionCtxMethods)
           m == IF ok THEN TxCtxEnter(m0) ELSE Raise(m0, AttributeError("__exit__"))
           stk == IF ok THEN Append(stack[u], [kind |-> "tx", flag |-> m.flag])
                  ELSE stack[u]
           h0 == IF stack[u] = <<>> THEN NewHist ELSE hist[u]
           h == IF ok /\ m.transactions = 1
                THEN [h0 EXCEPT !.decisions = 0, !.commits = 0, !.failed = FALSE,
                                !.maxdepth = 0]
                ELSE h0
       IN  /\ Store(u, m)
           /\ stack' = [stack EXCEPT ![u] = stk]
           /\ exc' = [exc EXCEPT ![u] = m.exc]
           /\ hist' = [hist EXCEPT ![u] = NextHist(u, h, m, stk)]
           /\ last' = [last EXCEPT ![u] =
                  Record("with transaction", u, m, ~DbCtxIsInit(m0), NoExc, m.exc, ~ok,
                         NoInput)]
    /\ UNCHANGED db_connect

\* The end of the innermost with statement's block, normal (exc[u] = NoExc) or
\* failing: the call of the manager's exit method, and what propagates after it.
ScopeExit(u) ==
    /\ stack[u] # <<>>
    /\ \E f \in Inputs :
        /\ f.cols = 1 /\ f.rows = 0
        /\ LET top == Top(u)
               stk == SubSeq(stack[u], 1, Len(stack[u]) - 1)
               m == IF top.kind = "tx" THEN TxCtxExit(Machine(u), top.flag, exc[u], f)
                    ELSE ConnCtxExit(Machine(u), top.flag, f)
               out == IF Ok(m) THEN exc[u] ELSE m.exc
           IN  /\ Bounded(m)
               /\ Store(u, m)
               /\ stack' = [stack EXCEPT ![u] = stk]
               /\ exc' = [exc EXCEPT ![u] = out]
               /\ hist' = [hist EXCEPT ![u] =
                      NextHist(u, hist[u], Reraise(m, out), stk)]
               /\ last' = [last EXCEPT ![u] =
                      Record(IF top.kind = "tx" THEN "exit transaction"
                             ELSE "exit connection",
                             u, m, top.flag, exc[u], out, TRUE, NoInput)]
    /\ UNCHANGED db_connect

\* A call of one of the helpers, or a cursor request, in the running block
Helper(u, op, m, f) ==
    /\ exc[u] = NoExc
    /\ Bounded(m)
    /\ Store(u, m)
    /\ exc' = [exc EXCEPT ![u] = m.exc]
    /\ hist' = [hist EXCEPT ![u] =
           NextHist(u, IF stack[u] = <<>> THEN NewHist ELSE hist[u], m, stack[u])]
    /\ last' = [last EXCEPT ![u] = Record(op, u, m, FALSE, NoExc, m.exc, TRUE, f)]
    /\ UNCHANGED <<db_connect, stack>>

SelectOne(u) == \E f \in Inputs : Helper(u, "select_one", select_one(Machine(u), f), f)
SelectInt(u) == \E f \in Inputs : Helper(u, "select_int", select_int(Machine(u), f), f)
Select(u) == \E f \in Inputs : Helper(u, "select", select(Machine(u), f), f)
Update(u) == \E f \in Inputs : Helper(u, "update", update(Machine(u), f), f)
Cursor(u) == Helper(u, "cursor", DbCtxCursor(Machine(u)), NoInput)

\* The running block raises a failure of its own
BlockRaise(u) ==
    /\ exc[u] = NoExc
    /\ stack[u] # <<>>
    /\ exc' = [exc EXCEPT ![u] = AppError]
    /\ hist' = [hist EXCEPT ![u].failed = @ \/ InTx(stack[u])]
    /\ last' = [last EXCEPT ![u] = [NoOp EXCEPT !.op = "raise", !.exOut = AppError,
                                                !.frames = Len(stack[u])]]
    /\ UNCHANGED <<db_connect, ctx, opened, closed, pending, committed, stack>>

\* The failure in flight is caught: by a try statement of the enclosing block,
\* or by the caller when no scope is open
Catch(u) ==
    /\ exc[u] # NoExc
    /\ exc' = [exc EXCEPT ![u] = NoExc]
    /\ last' = [last EXCEPT ![u] = [NoOp EXCEPT !.op = "catch", !.exIn = exc[u],
                                                !.frames = Len(stack[u])]]
    /\ UNCHANGED <<db_connect, ctx, opened, closed, pending, committed, stack, hist>>

Step(u) ==
    \/ ConnectionScope(u)
    \/ TransactionScope(u)
    \/ ScopeExit(u)
    \/ SelectOne(u)
    \/ SelectInt(u)
    \/ Select(u)
    \/ Update(u)
    \/ Cursor(u)
    \/ BlockRaise(u)
    \/ Catch(u)

Next == Step(MainUnit)

Spec == Init /\ [][Next]_vars

\* Several threads at once: every thread runs the statements that read or write
\* _db_ctx (the scopes and the cursor request), in any interleaving.  A helper
\* reaches _db_ctx only through the with statement of with_connection, which
\* ConnectionScope is.
ThreadStep(u) ==
    \/ ConnectionScope(u)
    \/ TransactionScope(u)
    \/ ScopeExit(u)
    \/ Cursor(u)
    \/ BlockRaise(u)
    \/ Catch(u)

NextThreads == \E u \in Units : ThreadStep(u) /\ Len(stack'[u]) <= MaxThreadDepth

SpecThreads == Init /\ [][NextThreads]_vars

----------------------------------------------------------------------------
\* The claims.

Helpers == {"select_one", "select_int", "select", "update"}

\* Failures the helpers pass on from the driver or from the unset factory
DriverSide(e) == e.type \in {"DriverError", "DBError"}

\* Some call b follows some call a in the calls of one operation
Then(calls, a, b) ==
    \E i, j \in DOMAIN calls : i < j /\ calls[i] = a /\ calls[j] = b

(***************************************************************************)
(* C1: a completed outermost Connection Scope statement (with connection() *)
(* entered while the context was not initialized) has made exactly one     *)
(* cleanup() call on the Execution Context, at its own exit, and, when a   *)
(* cursor was requested inside it with a Driver Factory installed, opened  *)
(* exactly one raw connection; the exit of an inner Connection Scope makes *)
(* no cleanup() call.                                                      *)
(***************************************************************************)
C1_OneConnectionOneCleanup ==
    \A u \in Units :
        LET l == last[u]
        IN  /\ (l.op \in {"with connection", "exit connection"} /\ l.done /\ l.outer)
                  => /\ hist[u].cleanups = 1
                     /\ Count(l.calls, {"ctx.cleanup"}) = 1
                     /\ (hist[u].cursors /\ db_connect = "driver")
                            => hist[u].opens = 1
            /\ (l.op = "exit connection" /\ ~l.outer)
                  => Count(l.calls, {"ctx.cleanup"}) = 0

(***************************************************************************)
(* C2: the exit of a Transaction Scope that leaves the depth >= 1 calls    *)
(* neither commit nor rollback; the exit that takes the depth from 1 to 0  *)
(* makes the one commit-or-rollback decision of its outermost transaction; *)
(* while a Transaction Scope is open no decision has been made.            *)
(***************************************************************************)
C2_OneDecisionAtOutermostExit ==
    \A u \in Units :
        LET l == last[u]
        IN  /\ (l.op = "exit transaction" /\ l.after >= 1)
                  => Count(l.calls, {"tx.commit", "tx.rollback", "handle.commit",
                                     "handle.rollback"}) = 0
            /\ (l.op = "exit transaction" /\ l.after = 0)
                  => /\ l.depth = 1
                     /\ Count(l.calls, {"tx.commit", "tx.rollback"}) = 1
                     /\ hist[u].decisions = 1
            /\ InTx(stack[u]) => hist[u].decisions = 0

\* An outermost transaction that nested a second scope has exited with one decision
C2_Witness ==
    /\ last[MainUnit].op = "exit transaction"
    /\ last[MainUnit].after = 0
    /\ hist[MainUnit].maxdepth >= 2
    /\ hist[MainUnit].decisions = 1

(***************************************************************************)
(* C3: when the block of an outermost Transaction Scope raised a failure,  *)
(* the exit calls rollback and never commit on the connection, and the     *)
(* failure that propagates after the exit is that same failure.            *)
(***************************************************************************)
C3_FailureRollsBackAndPropagates ==
    \A u \in Units :
        LET l == last[u]
        IN  (l.op = "exit transaction" /\ l.after = 0 /\ l.exIn # NoExc)
                => /\ Count(l.calls, {"handle.rollback"}) >= 1
                   /\ Count(l.calls, {"tx.commit", "handle.commit"}) = 0
                   /\ l.exOut = l.exIn

(***************************************************************************)
(* C4: when the commit of an outermost Transaction Scope fails, a rollback *)
(* is attempted on the connection after it, and the failure that           *)
(* propagates is the commit's failure, whatever the rollback does.         *)
(***************************************************************************)
C4_CommitFailureSurfaces ==
    \A u \in Units :
        LET l == last[u]
        IN  \A i \in DOMAIN l.raised :
                (l.op = "exit transaction"
                 /\ l.raised[i].origin \in {"commit", "handle.commit", "ctx.commit"})
                    => /\ Then(l.calls, "handle.commit", "handle.rollback")
                       /\ l.exOut = l.raised[i]

(***************************************************************************)
(* C5: an execute at transaction depth 0 runs its statement and commits on *)
(* the connection right after it (unless the driver or the unset factory   *)
(* fails it); an execute at depth >= 1 issues no commit, and no commit     *)
(* reaches the connection while a Transaction Scope is open.               *)
(***************************************************************************)
C5_ExecuteCommitsOutsideTransaction ==
    \A u \in Units :
        LET l == last[u]
        IN  /\ (l.op = "update" /\ l.depth = 0 /\ ~DriverSide(l.exOut))
                  => Then(l.calls, "cursor.execute", "handle.commit")
            /\ (l.op = "update" /\ l.depth >= 1)
                  => Count(l.calls, {"handle.commit"}) = 0
            /\ InTx(stack[u]) => hist[u].commits = 0

(***************************************************************************)
(* C7: while the Driver Factory is the unset sentinel, every helper call   *)
(* and every cursor request inside a scope fails with the sentinel's       *)
(* DBError, and no raw connection is opened.                               *)
(***************************************************************************)
C7_NotInitialized ==
    \A u \in Units :
        LET l == last[u]
        IN  (db_connect = "_dummy_connect"
             /\ (l.op \in Helpers \/ (l.op = "cursor" /\ l.frames > 0)))
                => l.exOut = DummyConnectError /\ opened[u] = 0

(***************************************************************************)
(* C8: select_int on a query whose first row has two or more columns       *)
(* raises MulticolumnError, and on one whose first row has exactly one     *)
(* column returns that column's value (unless the driver or the unset      *)
(* factory fails it).                                                      *)
(***************************************************************************)
C8_SelectIntColumns ==
    \A u \in Units :
        LET l == last[u]
        IN  (l.op = "select_int" /\ l.rows >= 1 /\ ~DriverSide(l.exOut))
                => IF l.cols = 1 THEN l.exOut = NoExc /\ l.ret = RetValue
                   ELSE l.exOut = MulticolumnError

(***************************************************************************)
(* C9: on a query that matches no row select_one returns None and select   *)
(* returns an empty list, with the cursor closed after the statement ran   *)
(* (unless the driver or the unset factory fails it).                      *)
(***************************************************************************)
C9_NoRowIsNoFailure ==
    \A u \in Units :
        LET l == last[u]
        IN  (l.op \in {"select_one", "select"} /\ l.rows = 0 /\ ~DriverSide(l.exOut))
                => /\ l.exOut = NoExc
                   /\ l.ret = IF l.op = "select_one" THEN RetNone
                              ELSE RetList(l.cols, 0)
                   /\ Then(l.calls, "cursor.execute", "cursor.close")

(***************************************************************************)
(* C10: the exit of an outermost scope (the one that initialized the       *)
(* Execution Context) leaves the context not initialized, so that with no  *)
(* scope open is_init() is false and the next scope entered is outer.      *)
(***************************************************************************)
C10_ContextDestroyedAtOutermostExit ==
    \A u \in Units :
        /\ (last[u].op \in {"exit connection", "exit transaction"} /\ last[u].outer)
              => ctx[CtxOf(u)].connection = "None"
        /\ stack[u] = <<>> => ctx[CtxOf(u)].connection = "None"
        /\ (last[u].op \in {"with connection", "with transaction"}
            /\ last[u].frames = 0 /\ ~last[u].done)
              => last[u].outer

(***************************************************************************)
(* C11: in every state the transaction depth of a unit's Execution Context *)
(* is a non-negative integer, and a depth > 0 implies that the context     *)
(* holds a Connection Handle.                                              *)
(***************************************************************************)
C11_DepthImpliesHandle ==
    \A u \in Units :
        /\ ctx[CtxOf(u)].transactions >= 0
        /\ ctx[CtxOf(u)].transactions > 0 => ctx[CtxOf(u)].connection # "None"

\* An inner Transaction Scope has exited with a failure and left the depth > 0
C11_Witness ==
    /\ last[MainUnit].op = "exit transaction"
    /\ last[MainUnit].exIn # NoExc
    /\ ctx[CtxOf(MainUnit)].transactions > 0
    /\ ctx[CtxOf(MainUnit)].connection = "LasyConnection"

(***************************************************************************)
(* C12: a handle opens its raw connection lazily, on the first cursor      *)
(* request and never at scope entry, at most once, and the raw connection  *)
(* it opened is closed exactly once: a cursor request inside a scope, with *)
(* a connection factory installed, leaves the handle holding the one raw   *)
(* connection of the nest; no scope entry calls the factory; nothing is    *)
(* closed that was not opened, and when no scope is open everything opened *)
(* has been closed.                                                        *)
(***************************************************************************)
C12_HandleOpensLazilyOnce ==
    \A u \in Units :
        LET l == last[u]
            c == ctx[CtxOf(u)]
        IN  /\ l.op \in {"with connection", "with transaction"}
                   => Count(l.calls, {"_db_connect"}) = 0
            /\ (l.op = "cursor" /\ c.connection # "None" /\ db_connect = "driver")
                   => c.hconn = "Raw" /\ l.exOut = NoExc
            /\ hist[u].opens <= 1
            /\ closed[u] <= opened[u]
            /\ stack[u] = <<>> => closed[u] = opened[u]

DecisionCalls == {"tx.commit", "tx.rollback", "handle.commit", "handle.rollback",
                  "raw.commit", "raw.rollback"}

(***************************************************************************)
(* C13: every exit of a Transaction Scope decrements the depth first, on   *)
(* every path, so that the commit/rollback decision is taken only at the   *)
(* decremented depth 0; the exit of the scope that owns the connection     *)
(* calls the context cleanup exactly once, after every call of the         *)
(* decision, also when the commit or rollback fails, and leaves no raw     *)
(* connection open.                                                        *)
(***************************************************************************)
C13_DecrementDecisionCleanup ==
    \A u \in Units :
        LET l == last[u]
        IN  l.op = "exit transaction" =>
                /\ l.after = l.depth - 1
                /\ Count(l.calls, DecisionCalls) > 0 => l.after = 0
                /\ l.outer =>
                    /\ Count(l.calls, {"ctx.cleanup"}) = 1
                    /\ \A i, j \in DOMAIN l.calls :
                           (l.calls[i] \in DecisionCalls /\ l.calls[j] = "ctx.cleanup")
                               => i < j
                    /\ ctx[CtxOf(u)].hconn # "Raw"

\* The owning scope's commit has failed and the context cleanup was still called
C13_Witness ==
    LET l == last[MainUnit]
    IN  /\ l.op = "exit transaction"
        /\ l.outer
        /\ l.exIn = NoExc
        /\ \E i \in DOMAIN l.raised : l.raised[i].origin = "handle.commit"
        /\ \E i \in DOMAIN l.calls : l.calls[i] = "ctx.cleanup"

(***************************************************************************)
(* C14: a failure raised inside the block of any Transaction Scope of the  *)
(* outermost transaction, at any nesting depth, also one that the          *)
(* enclosing block has caught before it reached the outer scope, makes the *)
(* outermost exit call rollback and never commit.                          *)
(***************************************************************************)
C14_AnyFailureRollsBack ==
    \A u \in Units :
        LET l == last[u]
        IN  (l.op = "exit transaction" /\ l.after = 0 /\ hist[u].failed) =>
                /\ Count(l.calls, {"tx.rollback"}) = 1
                /\ Count(l.calls, {"tx.commit", "handle.commit"}) = 0

(***************************************************************************)
(* C14 (amended): a failure that propagates out of the block of the        *)
(* outermost Transaction Scope makes its exit call rollback and never      *)
(* commit; a failure that was caught inside the block leaves the outermost *)
(* exit to call commit.                                                    *)
(***************************************************************************)
C14_PropagatedFailureRollsBack ==
    \A u \in Units :
        LET l == last[u]
        IN  (l.op = "exit transaction" /\ l.after = 0) =>
                /\ l.exIn # NoExc =>
                    /\ Count(l.calls, {"tx.rollback"}) = 1
                    /\ Count(l.calls, {"tx.commit", "handle.commit"}) = 0
                /\ (l.exIn = NoExc /\ hist[u].failed) =>
                    /\ Count(l.calls, {"tx.commit"}) = 1
                    /\ Count(l.calls, {"tx.rollback"}) = 0

\* A failure raised at nesting depth 2 or more has reached the outermost exit
C14_Witness ==
    LET l == last[MainUnit]
    IN  /\ l.op = "exit transaction"
        /\ l.after = 0
        /\ l.exIn # NoExc
        /\ hist[MainUnit].maxdepth >= 2
        /\ hist[MainUnit].failed

(***************************************************************************)
(* C15: at every commit or rollback that the exit of a Transaction Scope   *)
(* (depth 1 -> 0) or an auto-committing execute issues, the handle holds a *)
(* raw connection, also when the block executed no statement: no commit or *)
(* rollback of the handle fails for want of a raw connection.              *)
(***************************************************************************)
C15_CommitFindsRawConnection ==
    \A u \in Units :
        LET l == last[u]
        IN  l.op \in {"exit transaction", "update"} =>
                \A i \in DOMAIN l.raised :
                    l.raised[i].origin \notin {"handle.commit", "handle.rollback"}

\* What a unit observes of its Execution Context
Observed(u) == ctx[CtxOf(u)]

\* The step is not one of unit u: every statement of a unit changes the scopes
\* it has open or the failure it has in flight
Idle(u) == stack'[u] = stack[u] /\ exc'[u] = exc[u] /\ last'[u] = last[u]

(***************************************************************************)
(* C17: under any interleaving of two or more units each unit has its own  *)
(* Execution Context: no two units share a context, and a step of one unit *)
(* never changes the handle, the raw connection or the depth that another  *)
(* unit observes.                                                          *)
(***************************************************************************)
C17_UnitsIsolated ==
    [][/\ \A u, v \in Units : u # v => CtxOf(u) # CtxOf(v)
       /\ \A u \in Units : Idle(u) => Observed(u)' = Observed(u)]_vars

\* One unit has left its Transaction Scope while the other is still inside its own
C17_Witness ==
    \E u, v \in Units :
        /\ u # v
        /\ last[u].op = "with transaction"
        /\ stack[u] # <<>>
        /\ Observed(u).transactions = 1
        /\ last[v].op = "exit transaction"
        /\ Observed(v).transactions = 0
        /\ Observed(v).connection = "LasyConnection"

(***************************************************************************)
(* C18: cleanup() of a handle is idempotent: a call on a handle that holds *)
(* no raw connection, one that was closed before or one that never opened  *)
(* any, is a no-op that raises no failure.                                 *)
(***************************************************************************)
C18_CleanupRaisesNothing ==
    \A u \in Units :
        LET l == last[u]
        IN  Count(l.calls, {"handle.cleanup"}) > 0 =>
                /\ \A i \in DOMAIN l.raised : l.raised[i].origin # "handle.cleanup"
                /\ Observed(u).hconn # "Raw"

\* The Transaction Scopes a unit has open
OpenTransactions(u) == Cardinality({i \in DOMAIN stack[u] : stack[u][i].kind = "tx"})

(***************************************************************************)
(* C20: in every state the transaction depth of a unit's context equals    *)
(* the number of Transaction Scopes the unit has open: each entry adds     *)
(* one, each exit removes one on every path, normal or failing, and the    *)
(* depth is 0 when none is open.                                           *)
(***************************************************************************)
C20_DepthCountsOpenScopes ==
    \A u \in Units : Observed(u).transactions = OpenTransactions(u)

\* An inner Transaction Scope has exited with a failure; the outer one is open
C20_Witness ==
    LET l == last[MainUnit]
    IN  /\ l.op = "exit transaction"
        /\ l.exOut # NoExc
        /\ l.depth = 2
        /\ Observed(MainUnit).transactions = 1
        /\ OpenTransactions(MainUnit) = 1

=============================================================================
